---- MODULE Spec2Model ----
(***************************************************************************)
(* A model of redash.py: the local ownership cache (sqlite table           *)
(* "queries"), the ingestion run download_queries_info and the             *)
(* reconciliation run update_accesses_in_group, together with the remote   *)
(* Redash service they talk to.                                            *)
(*                                                                         *)
(* The program is one sequential process (__main__ calls the runs one     *)
(* after the other), so there is a single program counter pc.  The remote *)
(* service and the storage layer are the environment: every remote call   *)
(* draws its response from the outcomes send_request distinguishes, every *)
(* cache access inside a try block may raise sqlite3.Error (the accesses   *)
(* of download_queries_info are unguarded and are taken to succeed).  The  *)
(* remote listing grows only between runs; a query's id and owner never   *)
(* change once the query exists (Redash offers no call that reassigns     *)
(* them), and every listed record carries its id.                          *)
(***************************************************************************)
EXTENDS Integers, Sequences, FiniteSets, TLC

\* ---- bounds of the model ------------------------------------------------
\* Number of queries the remote may come to hold.
MaxQueries == 3
\* page_size of download_queries_info (25 in the source), scaled down so
\* that listings of one, two and three pages occur.
PageSize == 2
\* Longest member list the remote returns for a group.
MaxMembers == 2
\* Most cache accesses of one run that raise sqlite3.Error.
MaxDbErrors == 1

\* ---- values -------------------------------------------------------------
\* The default of member.get("id", 0): a record without a usable id.  The
\* same value stands for a query record whose "user" is None or no dict.
NoId == 0

Users == {10, 20}

\* Query ids are minted by the remote in creation order: 100, 101, ...
QueryId(i) == 99 + i

\* The outcomes of one HTTP exchange that send_request tells apart.
RespKinds == {"exception", "not200", "message", "data"}

\* Shapes of a decoded JSON body.
Shapes == {"dict", "list"}

\* Python's None as returned by the remote-client wrappers.
None == [some |-> FALSE, shape |-> "none", body |-> <<>>]

\* No reconciliation run to compare the next one with.
NoPrevRec == [clean |-> FALSE, users |-> <<>>, failed |-> <<>>]

\* No call of get_user_queries_with_editors in progress.
NoLookup == [user |-> NoId, ok |-> TRUE, result |-> <<>>]

VARIABLES
    remote,          \* owner of each remote query, in creation order
    cache,           \* rows of table queries: <<query_id, owner_id, editor_id>>
    pc,              \* position of the sequential program
    pages,           \* download_queries_info: pages
    page,            \* download_queries_info: loop variable page
    users,           \* update_accesses_in_group: users
    ui,              \* index of the loop variable user in users
    ei,              \* index of the loop variable editor in users
    qi,              \* index of the loop variable query in member_queries
    member_queries,  \* update_accesses_in_group: member_queries
    requests,        \* history: page requests issued by the current ingestion run
    stop,            \* history: why the current ingestion run left its loop
    grants,          \* history: grant calls of the current reconciliation run
    dbErr,           \* history: cache accesses of the current run that raised sqlite3.Error
    cache0,          \* history: the cache when the current run started
    prevOk,          \* history: the last finished run was an ingestion run that
                     \* processed its first page, and nothing happened since
    readErr,         \* history: a cache read of the current reconciliation run
                     \* (get_user_queries, has_access) raised sqlite3.Error
    prevRec,         \* history: the member ids of the last finished run, when it
                     \* was a reconciliation run without failed grant or storage
                     \* error and no ingestion ran since
    rerun,           \* history: the current reconciliation run directly follows
                     \* such a run and has the same member ids
    lookup           \* the call of get_user_queries_with_editors in progress:
                     \* its argument, whether its read succeeded, its result

vars == <<remote, cache, pc, pages, page, users, ui, ei, qi, member_queries,
          requests, stop, grants, dbErr, cache0, prevOk, readErr, prevRec,
          rerun, lookup>>

\* ---- remote client ------------------------------------------------------

\* A response the remote may give when its data is `payload`.
Responses(payload) ==
    [kind : RespKinds, shape : Shapes, body : {payload}]

send_request(r) ==
    IF r.kind = "data"
    THEN [some |-> TRUE, shape |-> r.shape, body |-> r.body]
    ELSE None

get_status(r) ==
    IF r.kind = "data"
    THEN [some |-> TRUE, shape |-> r.shape, body |-> r.body]
    ELSE None

get_queries(r) ==
    LET data == send_request(r)
    IN  IF data.some /\ data.shape # "dict" THEN None ELSE data

get_users_in_group(r) ==
    LET data == send_request(r)
    IN  IF data.some /\ data.shape # "list" THEN None ELSE data

\* ---- the remote listing -------------------------------------------------

\* The listing is newest first: position j holds the j-th newest query.
Listing(rem) ==
    [j \in 1..Len(rem) |->
        [id |-> QueryId(Len(rem) - j + 1), user |-> rem[Len(rem) - j + 1]]]

Min(a, b) == IF a < b THEN a ELSE b

\* The query records of page p (1-based) of the listing.
PageRecs(rem, p) ==
    LET lo == (p - 1) * PageSize + 1
        hi == Min(p * PageSize, Len(rem))
    IN  IF lo > hi THEN <<>> ELSE SubSeq(Listing(rem), lo, hi)

\* Number of pages the listing consists of.
NumPages(rem) == (Len(rem) + PageSize - 1) \div PageSize

\* ---- ownership cache ----------------------------------------------------

\* Ascending order of rows by (query_id, editor_id), the primary-key order.
RowLeq(f, g) == f[1] < g[1] \/ (f[1] = g[1] /\ f[3] <= g[3])

RECURSIVE RowsOf(_)
RowsOf(S) ==
    IF S = {} THEN <<>>
    ELSE LET m == CHOOSE f \in S : \A g \in S : RowLeq(f, g)
         IN  <<m>> \o RowsOf(S \ {m})

RECURSIVE Dedupe(_, _)
Dedupe(ids, seen) ==
    IF ids = <<>> THEN <<>>
    ELSE IF Head(ids) \in seen THEN Dedupe(Tail(ids), seen)
         ELSE <<Head(ids)>> \o Dedupe(Tail(ids), seen \cup {Head(ids)})

get_user_queries(c, user_id, dbok) ==
    IF ~dbok THEN <<>>
    ELSE LET rows == RowsOf({f \in c : f[2] = user_id})
             query_ids == [k \in 1..Len(rows) |-> rows[k][1]]
         IN  Dedupe(query_ids, {})

\* has_access with the final test the wrong way round.
has_access_inverted(c, query_id, user_id, dbok) ==
    IF ~dbok THEN 0
    ELSE IF \E f \in c : f[1] = query_id /\ f[3] = user_id THEN 0 ELSE 1

has_access(c, query_id, user_id, dbok) ==
    IF ~dbok THEN 0
    ELSE IF \E f \in c : f[1] = query_id /\ f[3] = user_id THEN 1 ELSE 0

\* set_query_acl that never reaches its INSERT.
set_query_acl_norecord(c, query_id, user_id, owner_id, r, dbok) == c

\* set_query_acl whose INSERT replaces the rows of the query.
set_query_acl_replace(c, query_id, user_id, owner_id, r, dbok) ==
    IF ~send_request(r).some \/ ~dbok \/ owner_id = NoId THEN c
    ELSE {f \in c : f[1] # query_id} \cup {<<query_id, owner_id, user_id>>}

\* set_query_acl that writes user_id into the owner column.
set_query_acl_userAsOwner(c, query_id, user_id, owner_id, r, dbok) ==
    IF ~send_request(r).some \/ ~dbok THEN c
    ELSE c \cup {<<query_id, user_id, user_id>>}

\* set_query_acl that goes on to its INSERT when the POST returned None.
set_query_acl_recordAlways(c, query_id, user_id, owner_id, r, dbok) ==
    IF ~dbok \/ owner_id = NoId THEN c
    ELSE c \cup {<<query_id, owner_id, user_id>>}

\* set_query_acl whose INSERT writes the owner into the editor column.
set_query_acl_selfRecord(c, query_id, user_id, owner_id, r, dbok) ==
    IF ~send_request(r).some \/ ~dbok \/ owner_id = NoId THEN c
    ELSE c \cup {<<query_id, owner_id, owner_id>>}

\* set_query_acl whose INSERT takes owner and editor the wrong way round.
set_query_acl_swapped(c, query_id, user_id, owner_id, r, dbok) ==
    IF ~send_request(r).some \/ ~dbok \/ owner_id = NoId THEN c
    ELSE c \cup {<<query_id, user_id, owner_id>>}

\* set_query_acl(query_id, user_id, owner_id): r is the remote's answer to the
\* POST, dbok tells whether the sqlite block runs without sqlite3.Error.
\* owner_id = NoId stands for the default owner_id=None.
set_query_acl(c, query_id, user_id, owner_id, r, dbok) ==
    LET data == send_request(r)
    IN  IF ~data.some THEN c
        ELSE IF ~dbok THEN c
        ELSE LET found == {f \in c : f[1] = query_id}
                 owner == IF owner_id # NoId THEN owner_id
                          ELSE IF found = {} THEN NoId
                          ELSE (CHOOSE f \in found : TRUE)[2]
             IN  IF owner = NoId THEN c
                 ELSE c \cup {<<query_id, owner, user_id>>}

\* ---- ingestion ----------------------------------------------------------

\* pages: int = int(status.get("queries_count", 1)) // page_size + 1
PagesFor(queries_count) == queries_count \div PageSize + 1

\* The inner loop with has_new_query = 1 set for every query with an owner,
\* whether its row exists or not.
RECURSIVE ProcessPage_alwaysNew(_, _, _)
ProcessPage_alwaysNew(c, queries, has_new_query) ==
    IF queries = <<>> THEN [cache |-> c, has_new_query |-> has_new_query]
    ELSE LET query == Head(queries)
         IN  IF query.user = NoId
             THEN ProcessPage_alwaysNew(c, Tail(queries), has_new_query)
             ELSE ProcessPage_alwaysNew(
                      c \cup {<<query.id, query.user, query.user>>},
                      Tail(queries), 1)

\* The inner loop left at the first query without an owner.
RECURSIVE ProcessPage_breakOnOwnerless(_, _, _)
ProcessPage_breakOnOwnerless(c, queries, has_new_query) ==
    IF queries = <<>> THEN [cache |-> c, has_new_query |-> has_new_query]
    ELSE LET query == Head(queries)
         IN  IF query.user = NoId
             THEN [cache |-> c, has_new_query |-> has_new_query]
             ELSE ProcessPage_breakOnOwnerless(
                      c \cup {<<query.id, query.user, query.user>>},
                      Tail(queries),
                      IF <<query.id, query.user, query.user>> \in c
                      THEN has_new_query ELSE 1)

\* The inner loop over the queries of one page: the cache after it and the
\* flag has_new_query.
RECURSIVE ProcessPage(_, _, _)
ProcessPage(c, queries, has_new_query) ==
    IF queries = <<>> THEN [cache |-> c, has_new_query |-> has_new_query]
    ELSE LET query == Head(queries)
         IN  IF query.user = NoId
             THEN ProcessPage(c, Tail(queries), has_new_query)
             ELSE LET query_id == query.id
                      owner_id == query.user
                      editor_id == owner_id
                      existing == {f \in c : f[1] = query_id /\ f[2] = owner_id}
                  IN  IF existing = {}
                      THEN ProcessPage(c \cup {<<query_id, owner_id, editor_id>>},
                                       Tail(queries), 1)
                      ELSE ProcessPage(c, Tail(queries), has_new_query)

\* The break taken when the page did bring something new.
NoNewRows_inverted(has_new_query) == has_new_query # 0

\* if has_new_query == 0: break
NoNewRows(has_new_query) == has_new_query = 0

\* The bodies the remote may send for a page: "results" is the page's list
\* of records, or something that is no list.
PageBodies(rem, p) ==
    {[results_ok |-> b, results |-> PageRecs(rem, p)] : b \in BOOLEAN}

StartIngest ==
    /\ pc = "idle"
    /\ \E r \in Responses([queries_count |-> Len(remote)]) :
         LET status == get_status(r)
         IN  IF ~status.some \/ status.shape # "dict"
             THEN /\ pc' = "idone"
                  /\ stop' = "status"
                  /\ UNCHANGED pages
             ELSE /\ pc' = "paging"
                  /\ pages' = PagesFor(status.body.queries_count)
                  /\ UNCHANGED stop
    /\ page' = 0
    /\ requests' = 0
    /\ cache0' = cache
    /\ prevRec' = NoPrevRec
    /\ UNCHANGED <<remote, cache, users, ui, ei, qi, member_queries, grants,
                   dbErr, prevOk, readErr, rerun, lookup>>

\* The loop going on to the next page after a page that could not be used.
PageFailed_continue ==
    /\ stop' = "fetch"
    /\ IF page + 1 < pages
       THEN /\ page' = page + 1
            /\ UNCHANGED <<cache, pc>>
       ELSE /\ pc' = "idone"
            /\ UNCHANGED <<cache, page>>

\* if queries_info is None ...: break, and if not isinstance(queries,
\* list): break
PageFailed ==
    /\ stop' = "fetch"
    /\ pc' = "idone"
    /\ UNCHANGED <<cache, page>>

\* One iteration of `for page in range(pages)`.
IngestPage ==
    /\ pc = "paging"
    /\ requests' = requests + 1
    /\ \E body \in PageBodies(remote, page + 1) : \E r \in Responses(body) :
         LET queries_info == get_queries(r)
         IN  IF ~queries_info.some \/ ~queries_info.body.results_ok
             THEN PageFailed
             ELSE LET done == ProcessPage(cache, queries_info.body.results, 0)
                  IN  /\ cache' = done.cache
                      /\ IF NoNewRows(done.has_new_query)
                         THEN /\ stop' = "dup"
                              /\ pc' = "idone"
                              /\ UNCHANGED page
                         ELSE IF page + 1 < pages
                         THEN /\ page' = page + 1
                              /\ UNCHANGED <<stop, pc>>
                         ELSE /\ stop' = "end"
                              /\ pc' = "idone"
                              /\ UNCHANGED page
    /\ UNCHANGED <<remote, pages, users, ui, ei, qi, member_queries, grants,
                   dbErr, cache0, prevOk, readErr, prevRec, rerun, lookup>>

\* The first page of the run that just ended was fetched and processed.
FirstPageDone ==
    \/ stop \in {"dup", "end"}
    \/ stop = "fetch" /\ requests >= 2

\* conn.close(); return None
FinishIngest ==
    /\ pc = "idone"
    /\ pc' = "idle"
    /\ prevOk' = FirstPageDone
    /\ pages' = 0
    /\ page' = 0
    /\ requests' = 0
    /\ stop' = "none"
    /\ cache0' = {}
    /\ UNCHANGED <<remote, cache, users, ui, ei, qi, member_queries, grants,
                   dbErr, readErr, prevRec, rerun, lookup>>

\* ---- reconciliation ------------------------------------------------------

\* The outcomes of one guarded cache access: it runs (TRUE) or, while the
\* run has seen fewer than MaxDbErrors failures, raises sqlite3.Error (FALSE).
DbOutcomes == IF dbErr < MaxDbErrors THEN BOOLEAN ELSE {TRUE}

Bit(b) == IF b THEN 1 ELSE 0

\* The member lists the remote may return: each member is a record with an
\* id, or a record without one (NoId).
RECURSIVE SeqsUpTo(_, _)
SeqsUpTo(S, n) ==
    IF n = 0 THEN {<<>>}
    ELSE LET shorter == SeqsUpTo(S, n - 1)
         IN  shorter \cup {Append(m, x) : m \in shorter, x \in S}

\* A group lists each of its users once; records without id may repeat.
MemberLists ==
    {m \in SeqsUpTo(Users \cup {NoId}, MaxMembers) :
        \A i, j \in 1..Len(m) : (i # j /\ m[i] = m[j]) => m[i] = NoId}

\* users built without the test user_id != 0.
RECURSIVE MemberIds_keepAll(_)
MemberIds_keepAll(group_members) ==
    IF group_members = <<>> THEN <<>>
    ELSE <<Head(group_members)>> \o MemberIds_keepAll(Tail(group_members))

\* users: the ids of the members that carry one, in the order received.
RECURSIVE MemberIds(_)
MemberIds(group_members) ==
    IF group_members = <<>> THEN <<>>
    ELSE IF Head(group_members) = NoId THEN MemberIds(Tail(group_members))
         ELSE <<Head(group_members)>> \o MemberIds(Tail(group_members))

StartReconcileFrom(lists) ==
    /\ pc = "idle"
    /\ \E m \in lists : \E r \in Responses(m) :
         LET group_members == get_users_in_group(r)
         IN  IF ~group_members.some
             THEN /\ pc' = "rdone"
                  /\ rerun' = FALSE
                  /\ UNCHANGED users
             ELSE /\ users' = MemberIds(group_members.body)
                  /\ rerun' = (prevRec.clean /\ prevRec.users = users')
                  /\ pc' = "owners"
    /\ ui' = 1
    /\ cache0' = cache
    /\ prevOk' = FALSE
    /\ prevRec' = [NoPrevRec EXCEPT !.failed = prevRec.failed]
    /\ UNCHANGED <<remote, cache, pages, page, ei, qi, member_queries,
                   requests, stop, grants, dbErr, readErr, lookup>>

StartReconcile == StartReconcileFrom(MemberLists)

\* for user in users: member_queries = get_user_queries(user)
OwnerStep ==
    /\ pc = "owners"
    /\ IF ui > Len(users)
       THEN /\ pc' = "rdone"
            /\ UNCHANGED <<member_queries, ei, dbErr, readErr>>
       ELSE \E dbok \in DbOutcomes :
            /\ member_queries' = get_user_queries(cache, users[ui], dbok)
            /\ dbErr' = dbErr + Bit(~dbok)
            /\ readErr' = (readErr \/ ~dbok)
            /\ ei' = 1
            /\ pc' = "editors"
    /\ UNCHANGED <<remote, cache, pages, page, users, ui, qi, requests, stop,
                   grants, cache0, prevOk, prevRec, rerun, lookup>>

\* for editor in users: if editor == user: continue
EditorStep ==
    /\ pc = "editors"
    /\ IF ei > Len(users)
       THEN /\ ui' = ui + 1
            /\ pc' = "owners"
            /\ UNCHANGED <<ei, qi>>
       ELSE IF users[ei] = users[ui] \/ member_queries = <<>>
       THEN /\ ei' = ei + 1
            /\ UNCHANGED <<ui, qi, pc>>
       ELSE /\ qi' = 1
            /\ pc' = "queries"
            /\ UNCHANGED <<ui, ei>>
    /\ UNCHANGED <<remote, cache, pages, page, users, member_queries, requests,
                   stop, grants, dbErr, cache0, prevOk, readErr, prevRec, rerun,
                   lookup>>

\* The loop leaving the whole run when a grant call failed.
AfterQuery_abortOnFailure(granted) ==
    IF ~granted
    THEN /\ pc' = "rdone"
         /\ UNCHANGED <<ei, qi>>
    ELSE IF qi < Len(member_queries)
    THEN /\ qi' = qi + 1
         /\ UNCHANGED <<ei, pc>>
    ELSE /\ ei' = ei + 1
         /\ pc' = "editors"
         /\ UNCHANGED qi

\* Where the program continues after the body of `for query in
\* member_queries` has run for member_queries[qi]; granted tells whether
\* the grant call, if one was made, returned data: the loop does not look
\* at it.
AfterQuery(granted) ==
    IF qi < Len(member_queries)
    THEN /\ qi' = qi + 1
         /\ UNCHANGED <<ei, pc>>
    ELSE /\ ei' = ei + 1
         /\ pc' = "editors"
         /\ UNCHANGED qi

\* if has_access(query, editor) == 0: set_query_acl(query, editor, user)
QueryStep ==
    /\ pc = "queries"
    /\ \E dbok1 \in DbOutcomes, dbok2 \in DbOutcomes, r \in Responses(<<>>) :
         LET user == users[ui]
             editor == users[ei]
             query == member_queries[qi]
         IN  IF has_access(cache, query, editor, dbok1) = 0
             THEN /\ cache' = set_query_acl(cache, query, editor, user, r, dbok2)
                  /\ grants' = Append(grants,
                        [query |-> query, user |-> editor, owner |-> user,
                         ok |-> send_request(r).some])
                  /\ dbErr' = dbErr + Bit(~dbok1) + Bit(send_request(r).some /\ ~dbok2)
                  /\ dbErr' <= MaxDbErrors
                  /\ readErr' = (readErr \/ ~dbok1)
                  /\ AfterQuery(send_request(r).some)
             ELSE /\ UNCHANGED <<cache, grants, dbErr, readErr>>
                  /\ AfterQuery(TRUE)
    /\ UNCHANGED <<remote, pages, page, users, ui, member_queries, requests,
                   stop, cache0, prevOk, prevRec, rerun, lookup>>

\* The first (query, editor) pair of a run whose grant call failed and of
\* which the cache holds no row, if any.
FirstFailed(g) ==
    LET F == {k \in 1..Len(g) :
                 /\ ~g[k].ok
                 /\ ~\E f \in cache : f[1] = g[k].query /\ f[3] = g[k].user}
    IN  IF F = {} THEN <<>>
        ELSE LET k == CHOOSE i \in F : \A j \in F : i <= j
             IN  <<g[k].query, g[k].user>>

\* return None.  failed is what the history keeps of the run's failed grants.
FinishReconcileNoting(failed) ==
    /\ pc = "rdone"
    /\ pc' = "idle"
    /\ users' = <<>>
    /\ ui' = 1
    /\ ei' = 1
    /\ qi' = 1
    /\ member_queries' = <<>>
    /\ grants' = <<>>
    /\ dbErr' = 0
    /\ cache0' = {}
    /\ readErr' = FALSE
    /\ rerun' = FALSE
    /\ prevRec' = IF dbErr = 0 /\ \A k \in 1..Len(grants) : grants[k].ok
                  THEN [clean |-> TRUE, users |-> users, failed |-> <<>>]
                  ELSE [NoPrevRec EXCEPT !.failed = failed]
    /\ UNCHANGED <<remote, cache, pages, page, requests, stop, prevOk, lookup>>

FinishReconcile == FinishReconcileNoting(<<>>)

\* ---- get_user_queries_with_editors ---------------------------------------

\* Text is a sequence of characters.
Digits == <<"0", "1", "2", "3", "4", "5", "6", "7", "8", "9">>

DigitSet == {Digits[i] : i \in 1..Len(Digits)}

\* The decimal text sqlite produces for a non-negative integer.
RECURSIVE Str(_)
Str(n) ==
    IF n < 10 THEN <<Digits[n + 1]>>
    ELSE Str(n \div 10) \o <<Digits[(n % 10) + 1]>>

\* GROUP_CONCAT(editor_id): the texts of the values, separated by commas.
RECURSIVE GROUP_CONCAT(_)
GROUP_CONCAT(ids) ==
    IF ids = <<>> THEN <<>>
    ELSE IF Len(ids) = 1 THEN Str(Head(ids))
    ELSE Str(Head(ids)) \o <<",">> \o GROUP_CONCAT(Tail(ids))

\* The rows of SELECT query_id, GROUP_CONCAT(editor_id) ... WHERE owner_id =
\* user_id GROUP BY query_id: one row for each query of the owner.
GroupedRows(c, user_id) ==
    LET ids == Dedupe([k \in 1..Len(RowsOf({f \in c : f[2] = user_id})) |->
                          RowsOf({f \in c : f[2] = user_id})[k][1]], {})
    IN  [k \in 1..Len(ids) |->
            LET rows == RowsOf({f \in c : f[2] = user_id /\ f[1] = ids[k]})
            IN  [query_id |-> ids[k],
                 editors |-> GROUP_CONCAT([i \in 1..Len(rows) |-> rows[i][3]])]]

RECURSIVE ValueOf(_)
ValueOf(text) ==
    IF text = <<>> THEN 0
    ELSE 10 * ValueOf(SubSeq(text, 1, Len(text) - 1))
         + (CHOOSE d \in 0..9 : Digits[d + 1] = text[Len(text)])

\* int(text): the number, or ValueError when text is no decimal numeral.
int(text) ==
    IF text # <<>> /\ \A i \in 1..Len(text) : text[i] \in DigitSet
    THEN [ok |-> TRUE, value |-> ValueOf(text)]
    ELSE [ok |-> FALSE, value |-> 0]

\* The loop `for row in rows` that fills query_editors.
RECURSIVE FillEditors(_, _)
FillEditors(rows, query_editors) ==
    IF rows = <<>> THEN query_editors
    ELSE LET row == Head(rows)
             editor_id == int(row.editors)
         IN  IF ~editor_id.ok
             THEN FillEditors(Tail(rows), query_editors)
             ELSE IF row.query_id \in DOMAIN query_editors
             THEN FillEditors(Tail(rows),
                      [query_editors EXCEPT
                          ![row.query_id] = Append(@, editor_id.value)])
             ELSE FillEditors(Tail(rows),
                      query_editors @@ (row.query_id :> <<editor_id.value>>))

get_user_queries_with_editors(c, user_id, dbok) ==
    IF ~dbok THEN <<>>
    ELSE FillEditors(GroupedRows(c, user_id), <<>>)

\* A call of get_user_queries_with_editors for some user.
ReadEditors ==
    /\ pc = "idle"
    /\ pc' = "read"
    /\ \E user_id \in Users, dbok \in DbOutcomes :
         lookup' = [user |-> user_id, ok |-> dbok,
                    result |-> get_user_queries_with_editors(cache, user_id, dbok)]
    /\ UNCHANGED <<remote, cache, pages, page, users, ui, ei, qi, member_queries,
                   requests, stop, grants, dbErr, cache0, prevOk, readErr,
                   prevRec, rerun>>

\* return query_editors
FinishRead ==
    /\ pc = "read"
    /\ pc' = "idle"
    /\ lookup' = NoLookup
    /\ UNCHANGED <<remote, cache, pages, page, users, ui, ei, qi, member_queries,
                   requests, stop, grants, dbErr, cache0, prevOk, readErr,
                   prevRec, rerun>>

\* ---- environment --------------------------------------------------------

\* Somebody creates a query on the remote; owner = NoId is a query whose
\* record carries no user.
NewQuery ==
    /\ pc = "idle"
    /\ Len(remote) < MaxQueries
    /\ \E owner \in Users \cup {NoId} : remote' = Append(remote, owner)
    /\ prevOk' = FALSE
    /\ UNCHANGED <<cache, pc, pages, page, users, ui, ei, qi, member_queries,
                   requests, stop, grants, dbErr, cache0, readErr, prevRec,
                   rerun, lookup>>

\* ---- specification ------------------------------------------------------

Init ==
    /\ remote = <<>>
    /\ cache = {}
    /\ pc = "idle"
    /\ pages = 0
    /\ page = 0
    /\ users = <<>>
    /\ ui = 1
    /\ ei = 1
    /\ qi = 1
    /\ member_queries = <<>>
    /\ requests = 0
    /\ stop = "none"
    /\ grants = <<>>
    /\ dbErr = 0
    /\ cache0 = {}
    /\ prevOk = FALSE
    /\ readErr = FALSE
    /\ prevRec = NoPrevRec
    /\ rerun = FALSE
    /\ lookup = NoLookup

Next ==
    \/ NewQuery
    \/ StartIngest
    \/ IngestPage
    \/ FinishIngest
    \/ StartReconcile
    \/ OwnerStep
    \/ EditorStep
    \/ QueryStep
    \/ FinishReconcile
    \/ ReadEditors
    \/ FinishRead

Spec == Init /\ [][Next]_vars

\* The same program against a remote whose member list may name a user more
\* than once: get_users_in_group and update_accesses_in_group take the list
\* as it comes.
RepeatedMemberLists == SeqsUpTo(Users \cup {NoId}, MaxMembers + 1)

StartReconcileRepeated == StartReconcileFrom(RepeatedMemberLists)

NextRepeated ==
    \/ NewQuery
    \/ StartIngest
    \/ IngestPage
    \/ FinishIngest
    \/ StartReconcileRepeated
    \/ OwnerStep
    \/ EditorStep
    \/ QueryStep
    \/ FinishReconcile
    \/ ReadEditors
    \/ FinishRead

SpecRepeated == Init /\ [][NextRepeated]_vars

\* update_accesses_in_group run again and again for one group whose
\* membership does not change, on a cache that one full ingestion run has
\* filled from a listing of queries with owners (a query without owner
\* leaves no row); the history keeps the first failed grant of the last run.
FixedGroup == <<10, 20>>

\* The facts download_queries_info writes for the listing r.
Ingested(r) ==
    {<<QueryId(i), r[i], r[i]>> : i \in {j \in 1..Len(r) : r[j] # NoId}}

InitConverge ==
    /\ remote \in SeqsUpTo(Users, MaxQueries - 1)
    /\ cache = Ingested(remote)
    /\ pc = "idle"
    /\ pages = 0
    /\ page = 0
    /\ users = <<>>
    /\ ui = 1
    /\ ei = 1
    /\ qi = 1
    /\ member_queries = <<>>
    /\ requests = 0
    /\ stop = "none"
    /\ grants = <<>>
    /\ dbErr = 0
    /\ cache0 = {}
    /\ prevOk = FALSE
    /\ readErr = FALSE
    /\ prevRec = NoPrevRec
    /\ rerun = FALSE
    /\ lookup = NoLookup

StartReconcileFixed == StartReconcileFrom({FixedGroup})

FinishReconcileNotingFailed == FinishReconcileNoting(FirstFailed(grants))

NextConverge ==
    \/ StartReconcileFixed
    \/ OwnerStep
    \/ EditorStep
    \/ QueryStep
    \/ FinishReconcileNotingFailed

\* Member o owns a cached query that some other member of the run cannot
\* edit yet.
Lacking(o) ==
    \E f \in cache : \E k \in 1..Len(users) :
        /\ f[2] = o
        /\ users[k] # o
        /\ ~\E g \in cache : g[1] = f[1] /\ g[3] = users[k]

\* A started run goes on to its end (the program is sequential and every
\* call returns).  The rest is what "repeated runs in which every grant call
\* eventually succeeds" supposes of the operator and of the environment: the
\* group is reconciled again and again with its member list fetched; the
\* read of a member's queries, tried again and again while a grant on them
\* is missing, succeeds in the end; and a grant that is asked for again and
\* again is in the end accepted by the remote and recorded.
Fairness ==
    /\ WF_vars(NextConverge)
    /\ SF_vars(StartReconcileFixed /\ pc' = "owners")
    /\ SF_vars(OwnerStep /\ pc' = "editors" /\ dbErr' = dbErr
                         /\ Lacking(users[ui]))
    /\ SF_vars(QueryStep /\ cache' # cache)

SpecConverge == InitConverge /\ [][NextConverge]_vars /\ Fairness

TypeOK ==
    /\ pc \in {"idle", "paging", "idone", "owners", "editors", "queries", "rdone",
              "read"}
    /\ cache \subseteq ({QueryId(i) : i \in 1..MaxQueries} \X Users \X Users)
    /\ Len(remote) <= MaxQueries
    /\ requests <= pages

\* ---- vocabulary of the properties ----------------------------------------

\* The cache records that editor e has access to query q.
HasFact(c, q, e) == \E f \in c : f[1] = q /\ f[3] = e

\* The queries the cache records as owned by o.
OwnedIn(c, o) == {f[1] : f \in {g \in c : g[2] = o}}

\* The current reconciliation run has called the grant operation for (q, e).
Attempted(q, e) ==
    \E k \in 1..Len(grants) : grants[k].query = q /\ grants[k].user = e

\* Every grant call of the current reconciliation run returned data.
AllGranted == \A k \in 1..Len(grants) : grants[k].ok

\* Page p of the listing holds a query with an owner of which c has no row.
NewOn(c, p) ==
    \E i \in 1..Len(PageRecs(remote, p)) :
        LET rec == PageRecs(remote, p)[i]
        IN  /\ rec.user # NoId
            /\ ~\E f \in c : f[1] = rec.id /\ f[2] = rec.user

\* Pages 1..k each held something new when the run started, pages k+1..N
\* nothing.
NewThrough(k) ==
    /\ \A p \in 1..k : NewOn(cache0, p)
    /\ \A p \in (k + 1)..NumPages(remote) : ~NewOn(cache0, p)

\* ---- C1 -----------------------------------------------------------------

\* C1: no redundant remote calls.  Whenever update_accesses_in_group
\* examines a pair (q, e) for which the cache holds a fact with query_id = q
\* and editor_id = e, the step makes no grant call.
C1_NoRedundantGrant ==
    [][(pc = "queries" /\ HasFact(cache, member_queries[qi], users[ei]))
          => grants' = grants]_vars

\* What does hold: the same, for the examinations whose cache read raises
\* no sqlite3.Error.
C1_NoRedundantGrantWhenReadable ==
    [][(pc = "queries" /\ HasFact(cache, member_queries[qi], users[ei])
          /\ dbErr' = dbErr)
          => grants' = grants]_vars

\* ---- C2 -----------------------------------------------------------------

\* C2: partial failure isolation.  At the end of a run without storage
\* error, whatever grant calls failed on the way, every combination of two
\* distinct members o, e and a query owned by o either has access or had
\* its grant attempted in this run.
C2_FailureIsolation ==
    (pc = "rdone" /\ dbErr = 0) =>
        \A i, j \in 1..Len(users) :
            users[i] # users[j] =>
                \A q \in OwnedIn(cache, users[i]) :
                    HasFact(cache, q, users[j]) \/ Attempted(q, users[j])

\* A finished run in which a grant call failed and a later one was made.
C2_Witness ==
    /\ pc = "rdone"
    /\ dbErr = 0
    /\ \E k \in 1..Len(grants) : ~grants[k].ok /\ k < Len(grants)

\* ---- C3 -----------------------------------------------------------------

\* C3: reconciliation completeness.  After a run in which every grant call
\* succeeded and no storage error occurred, every member has access to
\* every query the cache records as owned by another member; and no grant
\* call is ever made for the owner of the query it is about.
C3_Complete ==
    /\ (pc = "rdone" /\ dbErr = 0 /\ AllGranted) =>
           \A i, j \in 1..Len(users) :
               users[i] # users[j] =>
                   \A q \in OwnedIn(cache, users[i]) : HasFact(cache, q, users[j])
    /\ \A k \in 1..Len(grants) :
           /\ grants[k].user # grants[k].owner
           /\ grants[k].query \notin OwnedIn(cache, grants[k].user)

\* A finished clean run of a two-member group that had grants to make.
C3_Witness ==
    /\ pc = "rdone"
    /\ dbErr = 0
    /\ AllGranted
    /\ Len(users) = 2
    /\ Len(grants) >= 2
    /\ OwnedIn(cache, users[1]) # {}
    /\ OwnedIn(cache, users[2]) # {}

\* ---- C4 -----------------------------------------------------------------

\* The grant calls of the run are exactly one for (100, 20) and one for
\* (101, 20).
C4_TwoGrants ==
    /\ Len(grants) = 2
    /\ {<<grants[k].query, grants[k].user>> : k \in 1..Len(grants)}
           = {<<100, 20>>, <<101, 20>>}

\* C4 as stated: members [10, 20], member 10 owning queries 100 and 101 on
\* the remote, member 20 owning none, the cache empty when the run starts:
\* the run makes exactly two grant calls and the cache then holds
\* (100,10,20) and (101,10,20).
C4_EmptyCacheScenario ==
    (/\ pc = "rdone"
     /\ users = <<10, 20>>
     /\ remote = <<10, 10>>
     /\ cache0 = {}
     /\ dbErr = 0
     /\ AllGranted) =>
        /\ C4_TwoGrants
        /\ {<<100, 10, 20>>, <<101, 10, 20>>} \subseteq cache

\* C4 (amended): members [10, 20] and the cache holding exactly the owner
\* facts (100,10,10) and (101,10,10) when the run starts; a run whose grant
\* calls succeed and that meets no storage error makes exactly two grant
\* calls, for (100,20) and (101,20), and adds exactly the facts (100,10,20)
\* and (101,10,20).
C4_IngestedScenario ==
    (/\ pc = "rdone"
     /\ users = <<10, 20>>
     /\ cache0 = {<<100, 10, 10>>, <<101, 10, 10>>}
     /\ dbErr = 0
     /\ AllGranted) =>
        /\ C4_TwoGrants
        /\ cache = cache0 \cup {<<100, 10, 20>>, <<101, 10, 20>>}

C4_Witness ==
    /\ pc = "rdone"
    /\ users = <<10, 20>>
    /\ cache0 = {<<100, 10, 10>>, <<101, 10, 10>>}
    /\ dbErr = 0
    /\ AllGranted
    /\ Len(grants) = 2

\* ---- C5 -----------------------------------------------------------------

\* C5: idempotent ingestion.  A run of download_queries_info that directly
\* follows a run which processed its first page, with the remote listing
\* unchanged since that run started, changes nothing in the cache.
C5_Idempotent ==
    [][(pc = "paging" /\ prevOk) => cache' = cache]_vars

\* The second of two such runs has fetched a page and ended.
C5_Witness ==
    /\ pc = "idone"
    /\ prevOk
    /\ requests >= 1
    /\ stop = "dup"
    /\ Cardinality(cache) >= 2

\* ---- C6 -----------------------------------------------------------------

\* No fetch of one of the listing's pages failed in the run that just ended.
ListingFetched ==
    \/ stop \in {"dup", "end"}
    \/ stop = "fetch" /\ page + 1 > NumPages(remote)

\* C6: cold cache.  When the listing consists of N >= 1 pages, each with at
\* least one query that has an owner, and the cache was empty when the run
\* started, the run issues exactly N page requests.
C6_ColdRunRequests ==
    (/\ pc = "idone"
     /\ cache0 = {}
     /\ NumPages(remote) >= 1
     /\ NewThrough(NumPages(remote))
     /\ ListingFetched) =>
        requests = NumPages(remote)

\* What does hold: N requests when the query count is no multiple of the
\* page size, N + 1 when it is.
C6_ColdRunRequestsByCount ==
    (/\ pc = "idone"
     /\ cache0 = {}
     /\ NumPages(remote) >= 1
     /\ NewThrough(NumPages(remote))
     /\ ListingFetched) =>
        requests = IF Len(remote) % PageSize = 0
                   THEN NumPages(remote) + 1
                   ELSE NumPages(remote)

\* ---- C7 -----------------------------------------------------------------

\* C7: re-run.  When pages 1..k (k < N) each held a fact missing from the
\* cache at the start of the run and pages k+1..N none, a run without
\* failed fetch issues exactly k + 1 page requests.
C7_RerunRequests ==
    (pc = "idone" /\ stop \in {"dup", "end"}) =>
        \A k \in 0..(NumPages(remote) - 1) :
            NewThrough(k) => requests = k + 1

\* A run that found page 1 new and page 2 already ingested.
C7_Witness ==
    /\ pc = "idone"
    /\ stop = "dup"
    /\ NumPages(remote) = 2
    /\ NewThrough(1)
    /\ requests = 2

\* ---- C8 -----------------------------------------------------------------

\* C8: soundness of the early stop.  Whenever a run stops paging because a
\* page yielded no new fact, every query with an owner on the later pages
\* is in the cache.
C8_EarlyStopSound ==
    (pc = "idone" /\ stop = "dup") =>
        \A p \in (page + 2)..NumPages(remote) :
            \A i \in 1..Len(PageRecs(remote, p)) :
                LET rec == PageRecs(remote, p)[i]
                IN  rec.user # NoId => <<rec.id, rec.user, rec.user>> \in cache

\* ---- C9 -----------------------------------------------------------------

\* C9: the cache only grows.  Every step leaves every fact in place.
C9_CacheGrows == [][cache \subseteq cache']_vars

\* Ingestion and reconciliation have both written to the cache.
C9_Witness ==
    /\ \E f \in cache : f[2] = f[3]
    /\ \E f \in cache : f[2] # f[3]
    /\ Cardinality(cache) >= 3

\* ---- C10 ----------------------------------------------------------------

\* C10: single owner per query.  All facts that share a query_id carry the
\* same owner_id.
C10_SingleOwner ==
    \A f \in cache : \A g \in cache : f[1] = g[1] => f[2] = g[2]

\* A query with two facts, after ingestion and reconciliation.
C10_Witness ==
    \E f \in cache : \E g \in cache : f # g /\ f[1] = g[1]

\* ---- C11 ----------------------------------------------------------------

\* The editors the cache records for query q.
EditorsOf(c, q) == {f[3] : f \in {g \in c : g[1] = q}}

\* C11: get_user_queries_with_editors(u), when its read succeeds, maps each
\* query the cache records as owned by u to all the editors recorded for
\* it.
C11_EditorsOfOwned ==
    (pc = "read" /\ lookup.ok) =>
        /\ DOMAIN lookup.result = OwnedIn(cache, lookup.user)
        /\ \A q \in DOMAIN lookup.result :
               {lookup.result[q][k] : k \in 1..Len(lookup.result[q])}
                   = EditorsOf(cache, q)

\* What does hold: the result is right for the queries with one recorded
\* editor, and has no entry for the others.
C11_SingleEditorOnly ==
    (pc = "read" /\ lookup.ok) =>
        /\ DOMAIN lookup.result =
               {q \in OwnedIn(cache, lookup.user) :
                    Cardinality(EditorsOf(cache, q)) = 1}
        /\ \A q \in DOMAIN lookup.result :
               {lookup.result[q][k] : k \in 1..Len(lookup.result[q])}
                   = EditorsOf(cache, q)

\* ---- C12 ----------------------------------------------------------------

\* C12: storage failures are fatal to the run.  Once a cache read of a
\* reconciliation run has raised sqlite3.Error, the run is over and makes
\* no grant call, in the step of the failure and ever after.
C12_StorageFailureFatal ==
    [][readErr' => (grants' = grants /\ pc' = "rdone")]_vars

\* ---- C13 ----------------------------------------------------------------

Reconciling == {"owners", "editors", "queries", "rdone"}

\* What C13 asks of one step of a reconciliation run.
RecordsOnlyGranted ==
    LET last == grants'[Len(grants')]
    IN  /\ (Len(grants') > Len(grants) /\ ~last.ok) =>
              /\ cache' = cache
              /\ ~HasFact(cache, last.query, last.user)
                    => ~HasFact(cache', last.query, last.user)
        /\ cache' # cache =>
              /\ Len(grants') = Len(grants) + 1
              /\ last.ok
              /\ cache' = cache \cup {<<last.query, last.owner, last.user>>}

\* C13: a fact is recorded only for a successful grant.  A step of
\* reconciliation whose grant call fails leaves the cache as it was, so a
\* pair without access stays without; and a step that changes the cache
\* adds exactly the fact (q, owner, editor) of a grant call that returned
\* data.
C13_RecordOnlyGranted ==
    [][(pc \in Reconciling) => RecordsOnlyGranted]_vars

\* A run with a failed grant that left its pair without access and a
\* successful one whose fact is recorded.
C13_Witness ==
    /\ pc = "rdone"
    /\ \E k \in 1..Len(grants) :
           ~grants[k].ok /\ ~HasFact(cache, grants[k].query, grants[k].user)
    /\ \E k \in 1..Len(grants) :
           /\ grants[k].ok
           /\ <<grants[k].query, grants[k].owner, grants[k].user>> \in cache \ cache0

\* ---- C14 ----------------------------------------------------------------

\* Every query with an owner on page p of the listing has its owner fact in
\* the cache.
PageIngested(p) ==
    \A i \in 1..Len(PageRecs(remote, p)) :
        LET rec == PageRecs(remote, p)[i]
        IN  rec.user # NoId => <<rec.id, rec.user, rec.user>> \in cache

\* C14: page failure stops ingestion.  Once a page fetch has failed or
\* returned a malformed payload the run is out of its loop, the failed
\* request was its last one, and the facts of the pages fetched before it,
\* like everything the cache held before the run, are in the cache.
C14_PageFailureStops ==
    stop = "fetch" =>
        /\ pc = "idone"
        /\ requests = page + 1
        /\ cache0 \subseteq cache
        /\ \A p \in 1..page : PageIngested(p)

\* A run that committed its first page and failed on the second.
C14_Witness ==
    /\ pc = "idone"
    /\ stop = "fetch"
    /\ page = 1
    /\ requests = 2
    /\ cache # cache0

\* ---- C15 ----------------------------------------------------------------

\* C15: no retry within a run.  In one run the grant operation is called at
\* most once for each (query, editor) pair, whatever member list the remote
\* returned and whether or not the call succeeded.
C15_NoRetryInRun ==
    \A i, j \in 1..Len(grants) :
        (grants[i].query = grants[j].query /\ grants[i].user = grants[j].user)
            => i = j

\* What does hold: a pair is called again only after a call that failed, or
\* after a cache read that failed.
C15_RetryOnlyAfterFailure ==
    \A i, j \in 1..Len(grants) :
        (i < j /\ grants[i].query = grants[j].query
               /\ grants[i].user = grants[j].user)
            => (~grants[i].ok \/ dbErr > 0)

\* ---- C16 ----------------------------------------------------------------

\* C16: reconciliation is idempotent across runs.  A run that directly
\* follows a run of the same member list in which every grant succeeded
\* issues no grant call and leaves the cache as it found it.
C16_RerunIdempotent ==
    (pc \in Reconciling /\ rerun) => (grants = <<>> /\ cache = cache0)

\* What does hold: the second run issues no grant call as long as none of
\* its cache reads has failed.
C16_RerunIdempotentWhenReadable ==
    (pc \in Reconciling /\ rerun /\ ~readErr) =>
        (grants = <<>> /\ cache = cache0)

\* ---- C17 ----------------------------------------------------------------

\* Every member of the group has access to every cached query of every
\* other member.
Converged ==
    \A u \in 1..Len(FixedGroup), e \in 1..Len(FixedGroup) :
        u # e => \A q \in OwnedIn(cache, FixedGroup[u]) :
                     HasFact(cache, q, FixedGroup[e])

\* A run that read the cache without storage error has called the grant
\* operation for the pair whose grant failed in the run before it.
RetriedNextRun ==
    (pc = "rdone" /\ users = FixedGroup /\ dbErr = 0 /\ prevRec.failed # <<>>)
        => Attempted(prevRec.failed[1], prevRec.failed[2])

\* C17: eventual convergence on re-run.  A grant that failed in one run is
\* called again by the next run of the group, and under repeated runs of a
\* group of unchanged membership in which grant calls eventually succeed,
\* from some point on every member has access to every other member's
\* cached queries.
C17_EventualConvergence ==
    /\ []RetriedNextRun
    /\ <>[]Converged

\* A run that made, with success, the grant that failed in the run before
\* it, and left the group converged.
C17_Witness ==
    /\ pc = "rdone"
    /\ users = FixedGroup
    /\ prevRec.failed # <<>>
    /\ \E k \in 1..Len(grants) :
           /\ <<grants[k].query, grants[k].user>> = prevRec.failed
           /\ grants[k].ok
           /\ ~HasFact(cache0, grants[k].query, grants[k].user)
           /\ HasFact(cache, grants[k].query, grants[k].user)
    /\ Converged

\* ---- C18 ----------------------------------------------------------------

\* What one step of the page loop does to the cache: each fact it adds is the
\* owner fact of a record with an owner on the page it fetched, and unless
\* the fetch failed every such record of the page has its fact afterwards,
\* wherever records without owner stand among them.
IngestWrites ==
    LET recs == PageRecs(remote, page + 1)
    IN  /\ \A f \in cache' \ cache :
               /\ f[3] = f[2]
               /\ \E i \in 1..Len(recs) :
                      /\ recs[i].user # NoId
                      /\ recs[i].id = f[1]
                      /\ recs[i].user = f[2]
        /\ stop' # "fetch" =>
               \A i \in 1..Len(recs) :
                   recs[i].user # NoId =>
                       <<recs[i].id, recs[i].user, recs[i].user>> \in cache'

\* C18: what ingestion writes.  Every fact download_queries_info adds has
\* editor_id = owner_id and comes from a record with an owner on a fetched
\* page; a record without owner adds nothing and does not keep the records
\* after it on the page from being processed.
C18_IngestionWrites ==
    [][(pc = "paging") => IngestWrites]_vars

\* An ingestion run has written the fact of a record that follows a record
\* without owner on its page.
C18_Witness ==
    /\ pc \in {"paging", "idone"}
    /\ \E p \in 1..NumPages(remote) :
           LET recs == PageRecs(remote, p)
           IN  \E i, j \in 1..Len(recs) :
                   /\ i < j
                   /\ recs[i].user = NoId
                   /\ recs[j].user # NoId
                   /\ <<recs[j].id, recs[j].user, recs[j].user>> \in cache \ cache0
                   /\ ~\E f \in cache : f[1] = recs[i].id

\* ---- C19 ----------------------------------------------------------------

\* C19: every fact has its owner self-fact.  For every fact (q, o, e) of the
\* cache the fact (q, o, o) is in the cache too, and a reconciliation run
\* that started on an empty cache issues no grant call and leaves the cache
\* empty.
C19_OwnerSelfFact ==
    /\ \A f \in cache : <<f[1], f[2], f[2]>> \in cache
    /\ (pc \in Reconciling /\ cache0 = {}) => (grants = <<>> /\ cache = {})

\* A reconciliation run has recorded a grant next to the owner's self-fact.
C19_Witness ==
    /\ pc = "rdone"
    /\ \E f \in cache \ cache0 :
           /\ f[2] # f[3]
           /\ <<f[1], f[2], f[2]>> \in cache0

\* ---- C20 ----------------------------------------------------------------

\* The ids of the member list of the current run.
MembersOfRun == {users[k] : k \in 1..Len(users)}

\* C20: grants stay inside the group.  Every grant call of a run is for a
\* query whose cached owner is a member of the run's list and for an editor
\* who is another member of it; a run without members, as after a member
\* fetch that failed or returned no list, issues no grant call and leaves
\* the cache as it found it.
C20_GrantsInsideGroup ==
    /\ \A k \in 1..Len(grants) :
           /\ grants[k].owner \in MembersOfRun
           /\ grants[k].user \in MembersOfRun
           /\ grants[k].user # grants[k].owner
           /\ grants[k].user # NoId
           /\ grants[k].query \in OwnedIn(cache, grants[k].owner)
    /\ (pc \in Reconciling /\ users = <<>>) =>
           (grants = <<>> /\ cache = cache0)

\* A run has granted a query of each of two members to the other one.
C20_Witness ==
    /\ pc = "rdone"
    /\ Len(users) = 2
    /\ \E i, j \in 1..Len(grants) :
           /\ grants[i].owner = users[1] /\ grants[i].user = users[2]
           /\ grants[j].owner = users[2] /\ grants[j].user = users[1]

====
